---------------------------- MODULE Spec2Model ----------------------------
(***************************************************************************)
(* dotmanager (src/src/main.rs, src/src/util.rs): the tracking list, the   *)
(* status parser and the interactive diff navigator.                       *)
(*                                                                         *)
(* Strings are sequences of one-character strings, so that the code's      *)
(* string operations (contains, trim, split, join, slicing) are computed   *)
(* the way the code computes them.                                         *)
(***************************************************************************)
EXTENDS Integers, Sequences, FiniteSets, TLC

VARIABLES
    list,      \* content of the tracking-list file LIST (a string)
    out,       \* what the last command of the store did (its result, exit code, git calls)
    prev,      \* content of LIST when the last command started
    repo,      \* the changes git reports in the running process: porcelain lines
    info,      \* status_info of the running process (get_status_info)
    view,      \* what the running process printed of the status
    pc,        \* the process: "idle" (not started), "prompt", "nav" (waiting), "done"
    ret,       \* the caller diff_file_select returns to: "diff" or "update"
    index,     \* the navigator's selected index (i32)
    from,      \* the index before the last key
    key,       \* the last key the navigator read, "none" when it starts
    raw,       \* the terminal is in raw mode
    cursor,    \* "shown" or "hidden"
    shown,     \* what the last key did with diff_file: its target and what became of it
    exit,      \* how the last process ended, and whether it had entered the navigator
    depth      \* the calls of diff made with a file argument, one frame each

storeVars == <<list, out, prev>>
navVars == <<repo, info, view, pc, ret, index, from, key, raw, cursor, shown, exit, depth>>
vars == <<list, out, prev, repo, info, view, pc, ret, index, from, key, raw, cursor, shown,
          exit, depth>>

(***************************************************************************)
(* Bounds                                                                  *)
(***************************************************************************)
MaxLen == 4        \* longest path string
MaxEntries == 2    \* longest tracking list an add may produce
MaxLines == 2      \* most lines of a porcelain status the navigator is run on
MaxReport == 3     \* most lines of a porcelain status that is only reported
MaxDepth == 3      \* most nested calls of diff followed

(***************************************************************************)
(* Strings                                                                 *)
(***************************************************************************)
SLASH == "/"
NL == "\n"
Whitespace == {" ", "\n", "\t"}

\* str::contains(&str): t occurs in s as a substring (the empty string always does)
Contains(s, t) ==
    \E i \in 0..(Len(s) - Len(t)) : SubSeq(s, i + 1, i + Len(t)) = t

\* str::starts_with
StartsWith(s, t) == Len(t) <= Len(s) /\ SubSeq(s, 1, Len(t)) = t

RECURSIVE TrimEndMatches(_, _)
\* str::trim_end_matches(char): every trailing ch is stripped
TrimEndMatches(s, ch) ==
    IF s # <<>> /\ s[Len(s)] = ch THEN TrimEndMatches(SubSeq(s, 1, Len(s) - 1), ch) ELSE s

RECURSIVE TrimStart(_)
TrimStart(s) == IF s # <<>> /\ s[1] \in Whitespace THEN TrimStart(Tail(s)) ELSE s

RECURSIVE TrimEnd(_)
TrimEnd(s) ==
    IF s # <<>> /\ s[Len(s)] \in Whitespace THEN TrimEnd(SubSeq(s, 1, Len(s) - 1)) ELSE s

\* str::trim
Trim(s) == TrimEnd(TrimStart(s))

RECURSIVE Split(_, _)
\* str::split(char): k separators give k+1 pieces, so "" gives one empty piece
Split(s, ch) ==
    IF \E i \in 1..Len(s) : s[i] = ch
    THEN LET i == CHOOSE j \in 1..Len(s) : s[j] = ch /\ \A k \in 1..(j - 1) : s[k] # ch
         IN  <<SubSeq(s, 1, i - 1)>> \o Split(SubSeq(s, i + 1, Len(s)), ch)
    ELSE <<s>>

RECURSIVE Join(_, _)
\* [String]::join(sep)
Join(ss, sep) ==
    IF ss = <<>> THEN <<>>
    ELSE IF Len(ss) = 1 THEN ss[1]
    ELSE ss[1] \o sep \o Join(Tail(ss), sep)

Range(s) == {s[i] : i \in 1..Len(s)}

\* Vec::retain(keep), on a predicate given as the set of elements to keep
RECURSIVE Retain(_, _)
Retain(ss, keep) ==
    IF ss = <<>> THEN <<>>
    ELSE (IF ss[1] \in keep THEN <<ss[1]>> ELSE <<>>) \o Retain(Tail(ss), keep)

(***************************************************************************)
(* Paths given on the command line: absolute path strings, components      *)
(* separated by one separator, with or without a trailing separator.       *)
(***************************************************************************)
Alphabet == {"/", "a"}

Strings(n) == UNION {[1..k -> Alphabet] : k \in 1..n}

WellFormed(s) ==
    /\ s[1] = SLASH
    /\ \A i \in 1..(Len(s) - 1) : ~(s[i] = SLASH /\ s[i + 1] = SLASH)

Paths == {s \in Strings(MaxLen) : WellFormed(s)}

\* the components of a path (std::path::Path: empty components do not count)
Components(s) == SelectSeq(Split(s, SLASH), LAMBDA c : c # <<>>)

\* outcomes of std::fs::metadata for the node a path names
Kinds == {"none", "file", "dir"}

\* fs::metadata(s).is_ok() when the node s names is of kind k: the empty path
\* names nothing, and a trailing separator requires a directory
MetadataOk(s, k) ==
    /\ s # <<>>
    /\ k # "none"
    /\ (s[Len(s)] = SLASH => k = "dir")

(***************************************************************************)
(* Path List Store                                                         *)
(***************************************************************************)
\* util.rs file_to_vec
file_to_vec(file) == Split(Trim(file), NL)

\* fs::write(LIST, paths.join("\n"))
WriteList(paths) == Join(paths, <<NL>>)

NoOut == [cmd |-> "none", path |-> <<>>, ex |-> FALSE, res |-> "none", code |-> 0,
          msg |-> "none", git |-> <<>>, wrote |-> FALSE, alive |-> {}]

ExitZero(cmd, path, ex, res, msg) ==
    [cmd |-> cmd, path |-> path, ex |-> ex, res |-> res, code |-> 0, msg |-> msg,
     git |-> <<>>, wrote |-> FALSE, alive |-> {}]

\* print_path_error, then exit(2)
Exit(cmd, path, ex, res, msg) ==
    [cmd |-> cmd, path |-> path, ex |-> ex, res |-> res, code |-> 2, msg |-> msg,
     git |-> <<>>, wrote |-> FALSE, alive |-> {}]

\* the command ran to its end: the record was written and git was called
Done(cmd, path, git) ==
    [cmd |-> cmd, path |-> path, ex |-> TRUE, res |-> "ok", code |-> 0, msg |-> "none",
     git |-> git, wrote |-> TRUE, alive |-> {}]

\* main.rs check_path_exists: TRUE when the process goes on
check_path_exists(path, k) == MetadataOk(TrimEndMatches(path, SLASH), k)

\* main.rs add_to_tracking_list, the scan: the first entry that equals path or is
\* contained in it decides; 0 when there is none
FirstHit(paths, path) ==
    IF \E i \in 1..Len(paths) : path = paths[i] \/ Contains(path, paths[i])
    THEN CHOOSE i \in 1..Len(paths) :
            /\ (path = paths[i] \/ Contains(path, paths[i]))
            /\ \A j \in 1..(i - 1) : ~(path = paths[j] \/ Contains(path, paths[j]))
    ELSE 0

AddedListNoRetain(paths, path) == paths \o <<path>>

\* main.rs add_to_tracking_list, lines 421-422: retain and push
AddedList(paths, path) ==
    Retain(paths, {p \in Range(paths) : ~Contains(p, path)}) \o <<path>>

\* main.rs add: check_path_exists (with outcome ex), add_to_tracking_list, git add
add(path, ex) ==
    LET paths == file_to_vec(list)
        hit == FirstHit(paths, path)
    IN  /\ prev' = list
        /\ IF ~ex
           THEN /\ out' = Exit("add", path, FALSE, "NotFound", "error")
                /\ UNCHANGED list
           ELSE IF hit # 0 /\ path = paths[hit]
           THEN /\ out' = Exit("add", path, TRUE, "AlreadyTracked", "warn")
                /\ UNCHANGED list
           ELSE IF hit # 0
           THEN /\ out' = Exit("add", path, TRUE, "Conflict", "warn")
                /\ UNCHANGED list
           ELSE /\ Len(AddedList(paths, path)) <= MaxEntries
                /\ list' = WriteList(AddedList(paths, path))
                /\ out' = Done("add", path, << <<"add", path>> >>)

RemovedListContains(paths, path) == Retain(paths, {p \in Range(paths) : ~Contains(p, path)})

\* main.rs remove_from_tracking_list, line 429
RemovedList(paths, path) == Retain(paths, {p \in Range(paths) : p # path})

\* main.rs remove: check_path_exists (with outcome ex), remove_from_tracking_list,
\* git rm
remove(path, ex) ==
    LET paths == file_to_vec(list)
    IN  /\ prev' = list
        /\ IF ~ex
           THEN /\ out' = Exit("remove", path, FALSE, "NotFound", "error")
                /\ UNCHANGED list
           ELSE IF Len(RemovedList(paths, path)) = Len(paths)
           THEN /\ out' = Exit("remove", path, TRUE, "NotTracked", "error")
                /\ UNCHANGED list
           ELSE /\ list' = WriteList(RemovedList(paths, path))
                /\ out' = Done("remove", path, << <<"rm", path>> >>)

\* the filesystems the entries of paths can meet: a kind for every node they name,
\* where a node under which something exists is a directory
FileSystems(paths) ==
    LET nodes == {Components(p) : p \in Range(paths)}
        Under(n, m) == Len(n) < Len(m) /\ SubSeq(m, 1, Len(n)) = n
    IN  {fs \in [nodes -> Kinds] :
            \A n, m \in nodes : (Under(n, m) /\ fs[m] # "none") => fs[n] = "dir"}

\* main.rs git_add_all, line 179: the entries whose metadata is read
Alive(paths, fs) == {p \in Range(paths) : MetadataOk(p, fs[Components(p)])}

GitAddsBeforeRetain(paths, kept) == [i \in 1..Len(paths) |-> <<"add", paths[i]>>]

\* main.rs git_add_all, lines 183-185: git add for every path left after retain
GitAdds(paths, kept) == [i \in 1..Len(kept) |-> <<"add", kept[i]>>]

\* main.rs git_add_all, the staging pass of the command cmd: the record is
\* reconciled with the filesystem, then every entry left is handed to git add
git_add_all(cmd, fs) ==
    LET paths == file_to_vec(list)
        kept == Retain(paths, Alive(paths, fs))
    IN  /\ prev' = list
        /\ list' = (IF Len(paths) # Len(kept) THEN WriteList(kept) ELSE list)
        /\ out' = [cmd |-> cmd, path |-> <<>>, ex |-> FALSE, res |-> "ok", code |-> 0,
                   msg |-> "none", git |-> GitAdds(paths, kept),
                   wrote |-> (Len(paths) # Len(kept)), alive |-> Alive(paths, fs)]

(***************************************************************************)
(* The git collaborator: the changes of the repository as porcelain lines  *)
(* [code, path], and the three outputs the code reads from them            *)
(***************************************************************************)
Codes == {<<"A", " ">>, <<"D", " ">>, <<"M", " ">>, <<" ", "M">>, <<"A", "M">>, <<"R", " ">>}

FileNames == {<<"f">>, <<"g">>, <<"h">>}

StatusLines == [code : Codes, path : FileNames]

\* git reports a path once
Repos ==
    {r \in UNION {[1..n -> StatusLines] : n \in 0..MaxLines} :
        \A i, j \in 1..Len(r) : i # j => r[i].path # r[j].path}

\* the longer statuses, for the commands that end once they have reported
Reports ==
    {r \in UNION {[1..n -> StatusLines] : n \in 0..MaxReport} :
        \A i, j \in 1..Len(r) : i # j => r[i].path # r[j].path}

\* a change is staged when its index column is not blank
Staged(l) == l.code[1] # " "

\* the text of one porcelain line; a rename shows "old -> new"
LineText(l) ==
    l.code \o <<" ">> \o (IF l.code[1] = "R" THEN <<"o", " ", "-", ">", " ">> ELSE <<>>)
        \o l.path

RECURSIVE Concat(_)
Concat(ss) == IF ss = <<>> THEN <<>> ELSE ss[1] \o Concat(Tail(ss))

\* git status --porcelain
StatusOutput(r) == Concat([i \in 1..Len(r) |-> LineText(r[i]) \o <<NL>>])

\* git diff --cached --name-only
NameOnlyOutput(r) ==
    Concat([i \in 1..Len(r) |-> IF Staged(r[i]) THEN r[i].path \o <<NL>> ELSE <<>>])

\* the boundary marker of main.rs line 262, one token of the diff text
MARK == "diff --git "

\* git diff --cached
CachedDiffOutput(r) ==
    Concat([i \in 1..Len(r) |->
                IF Staged(r[i]) THEN <<MARK>> \o r[i].path \o <<NL>> ELSE <<>>])

(***************************************************************************)
(* Status Parser                                                           *)
(***************************************************************************)
Matches == <<"A", "D", "M">>
Titles == <<"new file", "deleted", "modified">>

\* cformat!("<dim>/</>"): ESC [ 2 m / ESC [ 2 2 m, with E for the escape character
DimSlash == <<"E", "[", "2", "m", "/", "E", "[", "2", "2", "m">>

get_status_counts_FirstColumn(status_lines) ==
    [i \in 1..3 |->
        Cardinality({j \in 1..Len(status_lines) : status_lines[j][1] = Matches[i]})]

\* main.rs get_status_counts
get_status_counts(status_lines) ==
    [i \in 1..3 |->
        Cardinality({j \in 1..Len(status_lines) :
                        Contains(SubSeq(status_lines[j], 1, 2), <<Matches[i]>>)})]

\* main.rs get_status_table, lines 452-470: the entries one line pushes
LineEntries(line) ==
    LET toks == Split(line, " ")
        path == DimSlash \o toks[Len(toks)]
        Row(i) == IF Contains(SubSeq(line, 1, 2), <<Matches[i]>>)
                  THEN << <<Titles[i], path>> >> ELSE <<>>
    IN  Row(1) \o Row(2) \o Row(3)

\* main.rs get_status_table: status_entries, one table row each
get_status_table(status_lines) ==
    Concat([j \in 1..Len(status_lines) |-> LineEntries(status_lines[j])])

RECURSIVE Digits(_)
\* format!("{}") of a count: its decimal digits
Digits(n) ==
    LET d == <<"0", "1", "2", "3", "4", "5", "6", "7", "8", "9">>
    IN  IF n < 10 THEN <<d[n + 1]>> ELSE Digits(n \div 10) \o <<d[(n % 10) + 1]>>

\* main.rs get_status_summary_short, line 519
ShortTitles == <<"+", "-", "~">>

get_status_summary_short_AllKinds(status_counts) ==
    Concat([i \in 1..Len(status_counts) |->
                <<ShortTitles[i]>> \o Digits(status_counts[i]) \o <<" ">>])

\* main.rs get_status_summary_short
get_status_summary_short(status_counts) ==
    Concat([i \in 1..Len(status_counts) |->
                IF status_counts[i] > 0
                THEN <<ShortTitles[i]>> \o Digits(status_counts[i]) \o <<" ">>
                ELSE <<>>])

\* main.rs get_status_summary, lines 530-531; a literal is one token of the text
Colors == <<"E[34m", "E[31m", "E[32m">>
LongTitles == <<"new files: ", "deleted: ", "modified: ">>

\* main.rs get_status_summary
get_status_summary(status_counts) ==
    LET results ==
            [i \in 1..Len(status_counts) |->
                IF status_counts[i] > 0
                THEN <<" ", "E[2m", ">", "E[22m", " ", LongTitles[i], Colors[i]>>
                         \o Digits(status_counts[i]) \o <<"E[0m", NL>>
                ELSE <<>>]
    IN  TrimEnd(Concat(results))

\* util.rs StatusInfo::default, with the fields main.rs uses
DefaultInfo ==
    [status |-> "none", counts |-> <<>>, entries |-> <<>>, summary |-> <<>>,
     summary_short |-> <<>>]

\* main.rs get_status_info
get_status_info(r) ==
    LET status_output == StatusOutput(r)
        status_lines == Split(Trim(status_output), NL)
    IN  IF status_output # <<>>
        THEN [status |-> "changes",
              counts |-> get_status_counts(status_lines),
              entries |-> get_status_table(status_lines),
              summary |-> get_status_summary(get_status_counts(status_lines)),
              summary_short |-> get_status_summary_short(get_status_counts(status_lines))]
        ELSE [DefaultInfo EXCEPT !.status = "uptodate"]

(***************************************************************************)
(* Diff Extractor                                                          *)
(***************************************************************************)
\* util.rs HOME, here /u
HOME == <<"/", "u">>

RECURSIVE TrimStartMatches(_, _)
\* str::trim_start_matches(&str): every leading occurrence of pat is stripped
TrimStartMatches(s, pat) ==
    IF pat # <<>> /\ StartsWith(s, pat)
    THEN TrimStartMatches(SubSeq(s, Len(pat) + 1, Len(s)), pat)
    ELSE s

\* Iterator::find over the enumerated diff_paths: the first position of file, 0 for None
FindPath(diff_paths, file) ==
    IF \E i \in 1..Len(diff_paths) : diff_paths[i] = file
    THEN CHOOSE i \in 1..Len(diff_paths) :
            diff_paths[i] = file /\ \A j \in 1..(i - 1) : diff_paths[j] # file
    ELSE 0

NoShown == [target |-> <<>>, found |-> FALSE, warn |-> FALSE, pager |-> "none",
            how |-> "none", code |-> 0, seg |-> <<>>]

NotFoundExitTwo(target) ==
    [target |-> target, found |-> FALSE, warn |-> TRUE, pager |-> "none",
     how |-> "exit", code |-> 2, seg |-> <<>>]

\* main.rs diff_file, lines 272-275: the warning, then exit(0)
NotFoundExit(target) ==
    [target |-> target, found |-> FALSE, warn |-> TRUE, pager |-> "none",
     how |-> "exit", code |-> 0, seg |-> <<>>]

SegmentNoPreamble(cached_diff, i) == cached_diff[i]

\* main.rs line 271, cached_diff[i + 1] for the i-th name counted from 0: here
\* names are counted from 1, and so are the elements of cached_diff
Segment(cached_diff, i) == cached_diff[i + 1]

\* main.rs diff_file on the changes r, where the pager starts or not (pagerOk):
\* the target looked up, whether it was found, the warning, the segment taken
\* for it, what became of the pager, and how the call ended ("return", or
\* "exit" / "panic" with a code)
diff_file(file, r, pagerOk) ==
    LET cached_diff == Split(CachedDiffOutput(r), MARK)
        diff_paths == Split(NameOnlyOutput(r), NL)
        target == TrimStartMatches(file, HOME \o <<SLASH>>)
        i == FindPath(diff_paths, target)
    IN  IF i = 0
        THEN NotFoundExit(target)
        ELSE IF i + 1 > Len(cached_diff)
        THEN [target |-> target, found |-> TRUE, warn |-> FALSE, pager |-> "none",
              how |-> "panic", code |-> 101, seg |-> <<>>]
        ELSE IF ~pagerOk
        THEN [target |-> target, found |-> TRUE, warn |-> FALSE, pager |-> "failed",
              how |-> "panic", code |-> 101, seg |-> Segment(cached_diff, i)]
        ELSE [target |-> target, found |-> TRUE, warn |-> FALSE, pager |-> "exited",
              how |-> "return", code |-> 0, seg |-> Segment(cached_diff, i)]

(***************************************************************************)
(* Interactive Navigator                                                   *)
(***************************************************************************)
\* the % of Rust on i32: the remainder has the sign of the dividend
RustRem(a, b) == IF a >= 0 THEN a % b ELSE -((-a) % b)

next_status_entry_NoWrap(i, l, dir) == RustRem(i + dir, l)

\* main.rs next_status_entry, lines 354-358: the new index
next_status_entry(i, l, dir) ==
    LET r == RustRem(i + dir, l) IN IF r < 0 THEN r + l ELSE r

\* the process ends: by return from main, by exit(code) or by a panic
EndProcess(how, code, nav) ==
    /\ pc' = "done"
    /\ exit' = [how |-> how, code |-> code, nav |-> nav]

\* main.rs diff_file_select up to its loop, called by caller
diff_file_select(caller) ==
    /\ ret' = caller
    /\ index' = 0
    /\ from' = 0
    /\ key' = "none"
    /\ shown' = NoShown
    /\ IF NameOnlyOutput(repo') = <<>>
       THEN /\ EndProcess("exit", 0, FALSE)
            /\ UNCHANGED <<raw, cursor>>
       ELSE /\ cursor' = "hidden"
            /\ raw' = TRUE
            /\ IF info'.entries = <<>>
               THEN EndProcess("panic", 101, TRUE)   \* select_status_entry: max() of nothing
               ELSE /\ pc' = "nav"
                    /\ exit' = [how |-> "none", code |-> 0, nav |-> TRUE]

\* a key is read in the loop of diff_file_select
InLoop(k) ==
    /\ pc = "nav"
    /\ key' = k
    /\ from' = index
    /\ UNCHANGED <<storeVars, repo, info, view, ret, depth>>

\* Tab, Down
KeyNext ==
    /\ InLoop("next")
    /\ index' = next_status_entry(index, Len(info.entries), 1)
    /\ shown' = NoShown
    /\ UNCHANGED <<pc, raw, cursor, exit>>

\* Shift-Tab, Up
KeyPrevious ==
    /\ InLoop("previous")
    /\ index' = next_status_entry(index, Len(info.entries), -1)
    /\ shown' = NoShown
    /\ UNCHANGED <<pc, raw, cursor, exit>>

SelectedPathFirst(entries, i) ==
    LET cell == Trim(entries[1][2]) IN SubSeq(cell, 11, Len(cell))

\* main.rs line 339: the path of the selected entry without its dim slash
SelectedPath(entries, i) ==
    LET cell == Trim(entries[i + 1][2]) IN SubSeq(cell, 11, Len(cell))

\* Enter
KeyEnter ==
    /\ InLoop("enter")
    /\ \E pagerOk \in BOOLEAN :
          LET d == diff_file(SelectedPath(info.entries, index), repo, pagerOk)
          IN  /\ shown' = d
              /\ IF d.how = "return"
                 THEN UNCHANGED <<pc, exit>>
                 ELSE EndProcess(d.how, d.code, TRUE)
    /\ UNCHANGED <<index, raw, cursor>>

\* main.rs lines 342-345: the terminal a key outside the five leaves
LeftTerminalRaw == [raw |-> TRUE, cursor |-> "shown"]

LeftTerminal == [raw |-> FALSE, cursor |-> "shown"]

\* any other key
KeyOther ==
    /\ InLoop("other")
    /\ raw' = LeftTerminal.raw
    /\ cursor' = LeftTerminal.cursor
    /\ IF ret = "update"
       THEN pc' = "prompt" /\ UNCHANGED exit
       ELSE EndProcess("return", 0, TRUE)
    /\ shown' = NoShown
    /\ UNCHANGED index

(***************************************************************************)
(* The commands, one process run each                                      *)
(***************************************************************************)
\* what check_path_exists can find for path, over the kinds of its node
Existence(path) == {check_path_exists(path, k) : k \in Kinds}

\* a command of the store: nothing of the terminal session is touched
Add ==
    /\ \E path \in Paths : \E ex \in Existence(path) : add(path, ex)
    /\ UNCHANGED navVars

Remove ==
    /\ \E path \in Paths : \E ex \in Existence(path) : remove(path, ex)
    /\ UNCHANGED navVars

\* main.rs list: the staging pass, then the table of the tracked paths
List ==
    /\ \E fs \in FileSystems(file_to_vec(list)) : git_add_all("list", fs)
    /\ UNCHANGED navVars

\* the start of a command that shows the status: the staging pass, then
\* get_status_info on what git reports
ShowStatus(cmd, repos) ==
    /\ pc = "idle"
    /\ \E fs \in FileSystems(file_to_vec(list)) : git_add_all(cmd, fs)
    /\ repo' \in repos
    /\ info' = get_status_info(repo')
    /\ UNCHANGED depth

\* no navigator in this run
NoNavigator ==
    /\ ret' = "none" /\ index' = 0 /\ from' = 0 /\ key' = "none" /\ shown' = NoShown
    /\ UNCHANGED <<raw, cursor>>

\* main.rs status
Status ==
    /\ ShowStatus("status", Reports)
    /\ view' = [status |-> info'.status,
                table |-> IF info'.counts # <<>> THEN Len(info'.entries) ELSE -1,
                summary |-> info'.counts # <<>>]
    /\ NoNavigator
    /\ EndProcess("return", 0, FALSE)

\* main.rs update, up to the prompt of select_next_step
Update ==
    /\ ShowStatus("update", Repos)
    /\ view' = [status |-> info'.status,
                table |-> IF info'.counts # <<>> THEN Len(info'.entries) ELSE -1,
                summary |-> FALSE]
    /\ NoNavigator
    /\ IF info'.counts # <<>>
       THEN pc' = "prompt" /\ exit' = [how |-> "none", code |-> 0, nav |-> FALSE]
       ELSE EndProcess("return", 0, FALSE)

\* main.rs diff without a file: the table, then the navigator
Diff ==
    /\ ShowStatus("diff", Repos)
    /\ view' = [status |-> "none", table |-> Len(info'.entries), summary |-> FALSE]
    /\ diff_file_select("diff")

push_and_commit == << <<"push">>, <<"commit">> >>

\* main.rs commit_and_push: the git subcommands it spawns
commit_and_push == << <<"commit">>, <<"push">> >>

\* main.rs select_next_step, "commit & push": commit_and_push
SelectCommit ==
    /\ pc = "prompt"
    /\ out' = [out EXCEPT !.git = @ \o commit_and_push]
    /\ EndProcess("return", 0, exit.nav)
    /\ UNCHANGED <<list, prev, repo, info, view, ret, index, from, key, raw, cursor, shown,
                   depth>>

\* main.rs select_next_step, "diff": the navigator, then the prompt again
SelectDiff ==
    /\ pc = "prompt"
    /\ UNCHANGED <<storeVars, repo, info, view, depth>>
    /\ diff_file_select("update")

\* main.rs diff with a file, lines 133 and 139: the staging pass, then the call
\* of diff with the same file, whatever the file is; "diffarg" is the process
\* inside such a call
DiffFile ==
    /\ pc \in {"idle", "diffarg"}
    /\ depth < MaxDepth
    /\ \E fs \in FileSystems(file_to_vec(list)) : git_add_all("diff-file", fs)
    /\ depth' = depth + 1
    /\ pc' = "diffarg"
    /\ UNCHANGED <<repo, info, view, ret, index, from, key, raw, cursor, shown, exit>>

\* the stack is exhausted by the nested calls: the process is aborted (SIGABRT)
DiffFileOverflow ==
    /\ pc = "diffarg"
    /\ EndProcess("abort", 134, FALSE)
    /\ UNCHANGED <<storeVars, repo, info, view, ret, index, from, key, raw, cursor, shown,
                   depth>>

\* main.rs select_next_step, "exit"
SelectExit ==
    /\ pc = "prompt"
    /\ EndProcess("exit", 2, exit.nav)
    /\ UNCHANGED <<storeVars, repo, info, view, ret, index, from, key, raw, cursor, shown,
                   depth>>

\* the record a user starts from: empty, or one normalized path
InitLists == {<<>>} \cup {p \in Paths : p[Len(p)] # SLASH}

InitSession ==
    /\ repo = <<>>
    /\ info = DefaultInfo
    /\ view = [status |-> "none", table |-> -1, summary |-> FALSE]
    /\ pc = "idle"
    /\ ret = "none"
    /\ index = 0
    /\ from = 0
    /\ key = "none"
    /\ raw = FALSE
    /\ cursor = "shown"
    /\ shown = NoShown
    /\ exit = [how |-> "none", code |-> 0, nav |-> FALSE]
    /\ depth = 0

Init ==
    /\ list \in InitLists
    /\ prev = list
    /\ out = NoOut
    /\ InitSession

\* the Path List Store under its commands
Next == Add \/ Remove \/ List

Spec == Init /\ [][Next]_vars

\* the record of a session: empty, or one tracked directory
SessionLists == {<<>>, <<"/", "a">>}

SessionInit ==
    /\ list \in SessionLists
    /\ prev = list
    /\ out = NoOut
    /\ InitSession

\* the commands that show the status, the prompt and the navigator
SessionNext ==
    \/ Status
    \/ Update
    \/ Diff
    \/ SelectCommit
    \/ SelectDiff
    \/ SelectExit
    \/ KeyNext
    \/ KeyPrevious
    \/ KeyEnter
    \/ KeyOther
    \/ DiffFile
    \/ DiffFileOverflow

SessionSpec == SessionInit /\ [][SessionNext]_vars

(***************************************************************************)
(* What the record denotes: its lines, none for the empty record           *)
(***************************************************************************)
Lines(file) == IF file = <<>> THEN <<>> ELSE Split(file, NL)

IsPrefix(s, t) == Len(s) <= Len(t) /\ SubSeq(t, 1, Len(s)) = s

\* p and q name the same node
SamePath(p, q) == Components(p) = Components(q)

\* p is a strict ancestor of q, component by component
IsAncestor(p, q) ==
    /\ Len(Components(p)) < Len(Components(q))
    /\ IsPrefix(Components(p), Components(q))

NoOverlap(paths) ==
    \A i, j \in 1..Len(paths) :
        i # j => /\ paths[i] # paths[j]
                 /\ ~SamePath(paths[i], paths[j])
                 /\ ~IsAncestor(paths[i], paths[j])

C2_AddOutcome ==
    (out.cmd = "add" /\ out.ex) =>
        LET P == Range(Lines(prev))
            c == out.path
            equal == c \in P
            same == \E p \in P : SamePath(p, c)
            desc == \E p \in P : IsAncestor(p, c)
        IN  /\ equal => out.res = "AlreadyTracked"
            /\ out.res = "AlreadyTracked" => same
            /\ (desc /\ ~equal) => out.res = "Conflict"
            /\ out.res = "Conflict" => (desc \/ same)
            /\ (~same /\ ~desc) => out.res = "ok"
            /\ out.res = "ok" => (~equal /\ ~desc)

\* the entries of old an add of c has to keep: all but the strict descendants of
\* c; an entry that names the node of c itself may stay or go
KeptByAdd(old, new, c) ==
    \E gone \in SUBSET {p \in Range(old) : SamePath(p, c)} :
        new = Retain(old, {p \in Range(old) : ~IsAncestor(c, p) /\ p \notin gone})

\* C3: when add(c) succeeds, the new list is the old list without the strict
\* descendants of c, the other entries in their previous order, and c last
C3_AddFrame ==
    (out.cmd = "add" /\ out.res = "ok") =>
        LET new == file_to_vec(list)
        IN  /\ new # <<>>
            /\ new[Len(new)] = out.path
            /\ KeptByAdd(Lines(prev), SubSeq(new, 1, Len(new) - 1), out.path)

\* what remove(c) leaves when it does not succeed
RemoveFailure ==
    out.res # "ok" => /\ list = prev
                      /\ ~out.wrote
                      /\ out.msg \in {"error", "warn"}
                      /\ out.code # 0

\* C4 as stated: for every list P, every filesystem state and every path c,
\* remove(c) succeeds if and only if c is an exact member of P; when it does not
\* succeed the persisted list is unchanged and an error is reported
C4_RemoveIffMember ==
    out.cmd = "remove" =>
        /\ out.res = "ok" <=> out.path \in Range(Lines(prev))
        /\ RemoveFailure

\* C4 as amended: remove(c) succeeds if and only if c (without its trailing
\* separators) exists on the filesystem and c is an exact member of P; when it
\* does not succeed the persisted list is unchanged and an error is reported
C4_RemoveIffExistingMember ==
    out.cmd = "remove" =>
        /\ out.res = "ok" <=> (out.ex /\ out.path \in Range(Lines(prev)))
        /\ RemoveFailure

\* a tracked path whose target is gone was refused, and a tracked one was removed
C4_Witness ==
    /\ out.cmd = "remove"
    /\ out.res = "NotFound"
    /\ out.path \in Range(Lines(prev))
    /\ Len(Lines(prev)) = 2

\* C5: load() after any sequence of add and remove returns exactly the paths added
\* and not since removed or pruned, in order of first insertion, and nothing
\* else; after the last remaining entry is removed it returns the empty sequence
C5_RoundTrip ==
    (out.cmd \in {"add", "remove"} /\ out.res = "ok") =>
        LET old == Lines(prev)
            new == file_to_vec(list)
        IN  IF out.cmd = "remove"
            THEN new = Retain(old, Range(old) \ {out.path})
            ELSE /\ new # <<>>
                 /\ new[Len(new)] = out.path
                 /\ \E pruned \in SUBSET Range(old) :
                       SubSeq(new, 1, Len(new) - 1) = Retain(old, Range(old) \ pruned)

(***************************************************************************)
(* The session: navigator, diff extractor and status commands              *)
(***************************************************************************)
\* C6: on every path by which the navigator is left after it enabled raw mode and
\* hid the cursor (cancel key, process exit inside the diff extractor invoked by
\* Enter, or a failure), the terminal is back in cooked mode with the cursor
\* visible. Stated for the cancel key and the process exit; the panics are left
\* out, so that the claim is held to the paths the code chooses itself.
C6_TerminalRestored ==
    (exit.nav /\ pc # "nav" /\ exit.how # "panic") => (~raw /\ cursor = "shown")

\* C7: with at least one entry the selected index starts at 0 and stays within
\* 0 .. entryCount-1; a Next key maps i to (i+1) mod entryCount and a Previous
\* key maps i to (i-1) mod entryCount, from 0 to entryCount-1
C7_IndexWraps ==
    (pc = "nav" /\ Len(info.entries) >= 1) =>
        LET l == Len(info.entries)
        IN  /\ 0 <= index /\ index < l
            /\ key = "none" => index = 0
            /\ key = "next" => index = (from + 1) % l
            /\ key = "previous" => index = (from + l - 1) % l
            /\ (key = "previous" /\ from = 0) => index = l - 1

\* with three entries, Previous at index 0 selected the last one
C7_Witness ==
    /\ pc = "nav" /\ Len(info.entries) = 3
    /\ key = "previous" /\ from = 0 /\ index = 2

\* C8: from every navigator state reached by Next, Previous and Confirm keys, a
\* key other than Tab, Down, Shift-Tab, Up and Enter can be read and ends the
\* loop, and then raw mode is disabled and the cursor is shown
C8_OtherKeyRestores ==
    /\ pc = "nav" => ENABLED KeyOther
    /\ key = "other" => (pc # "nav" /\ ~raw /\ cursor = "shown")

\* the loop was left by another key at an index only Next or Previous lead to
C8_Witness ==
    /\ key = "other" /\ index = 1 /\ pc = "done" /\ exit.how = "return"

\* the file names git lists as changed in the index
ChangedNames(r) == {r[i].path : i \in {j \in 1..Len(r) : Staged(r[j])}}

\* C9: diff extraction for a target absent from the changed-file-name list
\* reports a warning and ends the process with exit code 0, and the pager is
\* never spawned on that path
C9_AbsentTargetExitsZero ==
    (shown.how # "none" /\ shown.target \notin ChangedNames(repo)) =>
        /\ shown.warn
        /\ shown.pager = "none"
        /\ shown.how = "exit" /\ shown.code = 0
        /\ pc = "done" /\ exit.how = "exit" /\ exit.code = 0

\* Enter on an entry whose change is not staged
C9_Witness ==
    /\ key = "enter" /\ shown.how = "exit" /\ ~shown.found
    /\ shown.target \in FileNames

\* C10: when the porcelain status text is empty, parsing yields no entry and zero
\* counts, the status line is the "up to date" line, and no command that shows
\* the status prints a table
C10_EmptyStatusNoTable ==
    (pc # "idle" /\ StatusOutput(repo) = <<>>) =>
        /\ info.entries = <<>>
        /\ \A i \in DOMAIN info.counts : info.counts[i] = 0
        /\ info.status = "uptodate"
        /\ view.table = -1

(***************************************************************************)
(* Status parser and summaries                                             *)
(***************************************************************************)
\* the kinds a two-character code matches: 1 Added, 2 Deleted, 3 Modified
KindsOf(code) == {k \in 1..3 : Matches[k] \in Range(code)}

\* every line of r has a code of exactly one kind
Exclusive(r) == \A i \in 1..Len(r) : Cardinality(KindsOf(r[i].code)) = 1

RECURSIVE Sum(_)
Sum(ns) == IF ns = <<>> THEN 0 ELSE ns[1] + Sum(Tail(ns))

\* C11: for every porcelain status text whose codes are mutually exclusive (each
\* of one kind), parsing yields one entry per line, in input order, with the
\* kind of that line's code, and per-kind counts whose total is the number of
\* lines
C11_OneEntryPerLine ==
    (pc # "idle" /\ Exclusive(repo)) =>
        /\ Len(info.entries) = Len(repo)
        /\ \A i \in 1..Len(repo) :
              /\ info.entries[i][1] = Titles[CHOOSE k \in KindsOf(repo[i].code) : TRUE]
              /\ info.entries[i][2] = DimSlash \o repo[i].path
        /\ Sum(info.counts) = Len(repo)
        /\ \A k \in DOMAIN info.counts :
              info.counts[k] = Cardinality({i \in 1..Len(repo) : k \in KindsOf(repo[i].code)})

\* status on "A  f", "D  g", "M  h": counts 1,1,1 and a table of three rows
C11_Witness ==
    /\ out.cmd = "status" /\ pc = "done"
    /\ [i \in 1..Len(repo) |-> repo[i].code] = << <<"A", " ">>, <<"D", " ">>, <<"M", " ">> >>
    /\ info.counts = <<1, 1, 1>>
    /\ [i \in 1..Len(info.entries) |-> info.entries[i][1]] = Titles
    /\ view.table = 3

\* the kinds with a count above zero, in the fixed order
NonZero(counts) == SelectSeq(<<1, 2, 3>>, LAMBDA k : counts[k] > 0)

\* C12: for every triple of counts, the short summary is the concatenation, in the
\* order added, deleted, modified, of "<symbol><count> " with the symbols +, -, ~
\* for each kind whose count is above zero and nothing for a zero count; the long
\* summary has one line per non-zero kind in the same order and none for zero
\* counts
C12_Summaries ==
    info.counts # <<>> =>
        LET c == info.counts
            Token(k) == IF c[k] > 0 THEN <<ShortTitles[k]>> \o Digits(c[k]) \o <<" ">>
                        ELSE <<>>
            lines == IF info.summary = <<>> THEN <<>> ELSE Split(info.summary, NL)
        IN  /\ Len(c) = 3
            /\ info.summary_short = Token(1) \o Token(2) \o Token(3)
            /\ Len(lines) = Len(NonZero(c))
            /\ \A j \in 1..Len(lines) :
                  LET k == NonZero(c)[j]
                  IN  /\ {t \in Range(lines[j]) : t \in Range(LongTitles)} = {LongTitles[k]}
                      /\ Contains(lines[j], Digits(c[k]))

\* a status with added and modified files and none deleted: "+2 ~1 ", two lines
C12_Witness ==
    /\ out.cmd = "status" /\ view.summary
    /\ info.counts = <<2, 0, 1>>
    /\ info.summary_short = <<"+", "2", " ", "~", "1", " ">>
    /\ Len(Split(info.summary, NL)) = 2

(***************************************************************************)
(* The staging pass                                                        *)
(***************************************************************************)
\* the commands that begin with a staging pass
StagingCommands == {"list", "status", "update", "diff", "diff-file"}

\* C13: in every staging pass, every path handed to git add is an entry of the
\* tracking list whose filesystem target existed when the list was reconciled,
\* the entries are handed over in their order, and an entry reconcile dropped is
\* never passed to git
C13_StagedAreAlive ==
    out.cmd \in StagingCommands =>
        LET entries == file_to_vec(prev)
            dropped == Range(entries) \ out.alive
        IN  /\ \A i \in 1..Len(out.git) :
                  /\ out.git[i][1] = "add"
                  /\ out.git[i][2] \in Range(entries) \cap out.alive
                  /\ out.git[i][2] \notin dropped
            /\ [i \in 1..Len(out.git) |-> out.git[i][2]] = Retain(entries, out.alive)

\* a pass over two entries that dropped one and staged the other
C13_Witness ==
    /\ out.cmd = "list" /\ out.wrote
    /\ Len(file_to_vec(prev)) = 2
    /\ Len(out.git) = 1

\* C14: the diff command with a non-empty file argument stages the tracked paths
\* once, then runs the Diff Extractor on that file, and terminates: after the
\* pager exits, or with exit code 0 when the file has no changes
C14_DiffFileTerminates ==
    out.cmd = "diff-file" =>
        /\ depth <= 1
        /\ pc = "done" => /\ shown.how \in {"return", "exit"}
                          /\ exit.how \in {"return", "exit"}
                          /\ exit.code = 0

(***************************************************************************)
(* Failures of add and remove                                              *)
(***************************************************************************)
Failures == {"NotFound", "AlreadyTracked", "Conflict", "NotTracked"}

\* C15: when add or remove fails (path not found, already tracked, conflict, not
\* in the list), the process ends with a non-zero status, the record is not
\* rewritten and no git subcommand is invoked; git add / git rm is issued only
\* after the mutation of the tracking list succeeded
C15_FailureHasNoEffect ==
    out.cmd \in {"add", "remove"} =>
        /\ out.res \in Failures \cup {"ok"}
        /\ out.res \in Failures =>
              /\ out.code # 0
              /\ out.msg \in {"error", "warn"}
              /\ ~out.wrote /\ list = prev
              /\ out.git = <<>>
        /\ out.git # <<>> =>
              /\ out.res = "ok" /\ out.wrote /\ out.code = 0
              /\ out.git = << <<IF out.cmd = "add" THEN "add" ELSE "rm", out.path>> >>
              /\ out.cmd = "add" => out.path \in Range(file_to_vec(list))
              /\ out.cmd = "remove" => out.path \notin Range(file_to_vec(list))

\* an add refused for an entry at lower depth, on a list of two entries
C15_Witness ==
    /\ out.cmd = "add" /\ out.res = "Conflict"
    /\ Len(file_to_vec(prev)) = 2
    /\ out.code = 2

(***************************************************************************)
(* Trailing separators                                                     *)
(***************************************************************************)
\* what add of path answers on the entries paths when the path exists or not
AddResult(paths, path, ex) ==
    IF ~ex THEN "NotFound"
    ELSE IF FirstHit(paths, path) = 0 THEN "ok"
    ELSE IF paths[FirstHit(paths, path)] = path THEN "AlreadyTracked"
    ELSE "Conflict"

\* C16: add normalizes trailing separators: add(p + "/") has the outcome of add(p)
\* and leaves the persisted list add(p) leaves, and no stored entry ends with a
\* separator
C16_AddNormalizes ==
    /\ \A p \in Range(Lines(list)) : p # <<>> => p[Len(p)] # SLASH
    /\ (out.cmd = "add" /\ TrimEndMatches(out.path, SLASH) # <<>>) =>
          LET paths == file_to_vec(prev)
              p == TrimEndMatches(out.path, SLASH)
          IN  /\ out.res = AddResult(paths, p, out.ex)
              /\ list = IF AddResult(paths, p, out.ex) = "ok"
                        THEN WriteList(AddedList(paths, p)) ELSE prev

(***************************************************************************)
(* Codes of more than one kind                                             *)
(***************************************************************************)
\* the entries parsed for the file of line i of the status r
EntriesOf(r, i) == SelectSeq(info.entries, LAMBDA e : e[2] = DimSlash \o r[i].path)

\* the first of the kinds ks in the order Added, Deleted, Modified
FirstKind(ks) == CHOOSE k \in ks : \A j \in ks : k <= j

\* C17: every porcelain status line produces at most one entry: when its code
\* holds more than one of A, D, M, only the first kind in the order Added,
\* Deleted, Modified classifies it; and it is counted once
C17_AtMostOneEntry ==
    pc # "idle" =>
        /\ \A i \in 1..Len(repo) :
              /\ Len(EntriesOf(repo, i)) <= 1
              /\ (info.status = "changes" /\ KindsOf(repo[i].code) # {}) =>
                    EntriesOf(repo, i) =
                        << <<Titles[FirstKind(KindsOf(repo[i].code))], DimSlash \o repo[i].path>> >>
        /\ Sum(info.counts) <= Len(repo)

(***************************************************************************)
(* The Confirm key                                                         *)
(***************************************************************************)
\* C18: Enter in the navigator invokes the Diff Extractor on the path of the entry
\* at the selected index and, once the pager has exited, the loop continues with
\* the selected index and the entries unchanged and raw mode still enabled
C18_EnterKeepsLoop ==
    [][(pc = "nav" /\ key' = "enter") =>
            /\ shown'.how # "none"
            /\ DimSlash \o shown'.target = info.entries[index + 1][2]
            /\ index' = index /\ info' = info
            /\ shown'.pager = "exited" =>
                  /\ pc' = "nav"
                  /\ raw' /\ cursor' = "hidden"]_vars

\* Enter on the second entry: the pager ran and the loop waits at the same index
C18_Witness ==
    /\ key = "enter" /\ shown.pager = "exited"
    /\ pc = "nav" /\ index = 1 /\ from = 1 /\ raw
    /\ DimSlash \o shown.target = info.entries[2][2]

(***************************************************************************)
(* Reconcile                                                               *)
(***************************************************************************)
\* C19: reconcile does not write the persisted record when the filesystem target
\* of every entry exists, and otherwise rewrites it with exactly the entries
\* whose target exists, in their previous order
C19_ReconcileFrame ==
    out.cmd \in StagingCommands =>
        LET entries == Lines(prev)
            live == Retain(entries, out.alive)
        IN  IF live = entries
            THEN ~out.wrote /\ list = prev
            ELSE out.wrote /\ Lines(list) = live

(***************************************************************************)
(* Names and segments                                                      *)
(***************************************************************************)
\* the names of the staged changes of r, in the order git lists them
StagedNames(r) ==
    LET staged == SelectSeq(r, Staged) IN [i \in 1..Len(staged) |-> staged[i].path]

\* C20: for every target found at index i of the changed-file-name sequence
\* (counted from 0), the Diff Extractor renders element i+1 of the combined diff
\* text split on the marker "diff --git " (element 0 is the preamble), and that
\* element exists for every index at which a target can be found
C20_SegmentOfName ==
    (shown.how # "none" /\ shown.found) =>
        LET names == StagedNames(repo)
            elements == Split(CachedDiffOutput(repo), MARK)
        IN  \E i \in 0..(Len(names) - 1) :
                /\ names[i + 1] = shown.target
                /\ i + 1 < Len(elements)
                /\ shown.seg = elements[i + 2]
                /\ StartsWith(shown.seg, shown.target)
                /\ ~(shown.how = "panic" /\ shown.pager = "none")

\* Enter on the second of two staged files: the third element was rendered
C20_Witness ==
    /\ key = "enter" /\ shown.found /\ shown.pager = "exited"
    /\ Len(StagedNames(repo)) = 2
    /\ shown.target = StagedNames(repo)[2]
    /\ shown.seg = shown.target \o <<NL>>

(***************************************************************************)
(* The next-step prompt of update                                          *)
(***************************************************************************)
\* the positions of the git subcommand sub among the calls git
Calls(git, sub) == {i \in 1..Len(git) : git[i][1] = sub}

\* commit and push are there only once "commit & push" was selected at the
\* prompt of an update run, once each and commit before push, as the last calls
CommitOnlyOnSelection ==
    (Calls(out.git, "commit") # {} \/ Calls(out.git, "push") # {}) =>
        /\ out.cmd = "update" /\ pc = "done" /\ exit.how = "return"
        /\ Calls(out.git, "commit") = {Len(out.git) - 1}
        /\ Calls(out.git, "push") = {Len(out.git)}

\* the steps taken at the prompt
PromptSteps ==
    [][/\ (out.cmd = "update" /\ out' # out) =>
            /\ pc = "prompt" /\ pc' = "done"
            /\ out'.git = out.git \o << <<"commit">>, <<"push">> >>
       /\ (pc = "prompt" /\ exit'.how = "exit" /\ exit'.code = 2) =>
            /\ pc' = "done" /\ out' = out
       /\ (pc = "nav" /\ ret = "update" /\ key' = "other") =>
            /\ pc' = "prompt"
            /\ out' = out /\ info' = info /\ view' = view]_vars

\* the prompt offers its three options, whatever the detours before
PromptOffersAll ==
    pc = "prompt" => (ENABLED SelectCommit /\ ENABLED SelectDiff /\ ENABLED SelectExit)

\* an update run that chose "diff" ends only by a choice made at the prompt
DetourReturns ==
    (out.cmd = "update" /\ ret = "update" /\ pc = "done") =>
        \/ Calls(out.git, "commit") # {}
        \/ exit.how = "exit" /\ exit.code = 2

\* an update run that chose "diff" ends by a choice made at the prompt, or
\* inside the detour: with exit code 0 and no navigator when no change is
\* staged, with exit code 0 at Enter on an entry without staged change, or by
\* a panic; and then nothing was committed or pushed
DetourReturnsOrEnds ==
    (out.cmd = "update" /\ ret = "update" /\ pc = "done") =>
        \/ Calls(out.git, "commit") # {}
        \/ exit.how = "exit" /\ exit.code = 2
        \/ /\ Calls(out.git, "commit") = {} /\ Calls(out.git, "push") = {}
           /\ \/ exit.how = "exit" /\ exit.code = 0 /\ ~exit.nav
                    /\ NameOnlyOutput(repo) = <<>>
              \/ exit.how = "exit" /\ exit.code = 0 /\ exit.nav
                    /\ key = "enter" /\ ~shown.found
              \/ exit.how = "panic"

\* C21 as stated: in an update run, commit and push are issued only after the
\* user selects "commit & push" at the prompt, commit before push; selecting
\* "diff" runs the navigator and then presents the same prompt again, for any
\* number of detours; selecting "exit" issues neither
C21_PromptLoop ==
    /\ [](CommitOnlyOnSelection /\ PromptOffersAll /\ DetourReturns)
    /\ PromptSteps

\* C21 as amended: the same, where selecting "diff" presents the same prompt
\* again when the navigator is left by a key other than the five, and ends the
\* process without commit or push when no change is staged (exit code 0, no
\* navigator), at Enter on an entry without staged change (exit code 0) or by
\* a panic
C21_PromptLoopOrEnd ==
    /\ [](CommitOnlyOnSelection /\ PromptOffersAll /\ DetourReturnsOrEnds)
    /\ PromptSteps

\* commit and push after a detour through the navigator
C21_Witness ==
    /\ out.cmd = "update" /\ pc = "done"
    /\ ret = "update" /\ key = "other"
    /\ Calls(out.git, "commit") # {} /\ Calls(out.git, "push") # {}

(***************************************************************************)
(* The entries the navigator selects from                                  *)
(***************************************************************************)
\* C22: whenever the navigator has enabled raw mode to enter its key loop, the
\* entry sequence is non-empty, so that the selection of index 0 and every later
\* index refer to an existing entry; also when the status holds only lines whose
\* code matches none of A, D, M while the changed-file-name list is non-empty
C22_EntriesNonEmpty ==
    raw =>
        /\ info.entries # <<>>
        /\ 0 <= index /\ index < Len(info.entries)
        /\ ~(exit.how = "panic" /\ shown.how = "none")

=============================================================================
